---------------------------- MODULE Spec2Model ----------------------------
(***************************************************************************)
(* Prompt backtest engine: task coordinator, item workers, retry handler,  *)
(* response normalizer and decision parser.                                *)
(*                                                                         *)
(*   backend/services/prompt_backtest_service.py                           *)
(*   backend/api/prompt_backtest_routes.py                                 *)
(*                                                                         *)
(* Python values are tagged records.  A Python str is a sequence of        *)
(* tokens; a token is a substring that the code never cuts: a literal      *)
(* (a fence, a white-space character, a word) or the text of one JSON      *)
(* document.                                                               *)
(***************************************************************************)
EXTENDS Integers, Sequences, FiniteSets, TLC

(***************************************************************************)
(* Python values                                                           *)
(***************************************************************************)
None == [t |-> "none"]

Str(s) == [t |-> "str", s |-> s]

Num(n) == [t |-> "num", n |-> n]

Bool(b) == [t |-> "bool", b |-> b]

List(e) == [t |-> "list", e |-> e]

Dict(d) == [t |-> "dict", d |-> d]

EmptyDict == Dict([k \in {} |-> None])

IsStr(v) == v.t = "str"

IsList(v) == v.t = "list"

IsDict(v) == v.t = "dict"

\* bool(v): the truth value Python gives to v in `if v`, `v or w`, `not v`
Truthy(v) ==
    CASE v.t = "none" -> FALSE
      [] v.t = "str"  -> v.s # <<>>
      [] v.t = "num"  -> v.n # 0
      [] v.t = "bool" -> v.b
      [] v.t = "list" -> v.e # <<>>
      [] v.t = "dict" -> DOMAIN v.d # {}

\* d.get(k, default) on a dict value
Get(v, k, default) == IF k \in DOMAIN v.d THEN v.d[k] ELSE default

\* v has attribute .get / .strip / supports v[:n] ; otherwise the access raises
HasGet(v) == v.t = "dict"

HasStrip(v) == v.t = "str"

Sliceable(v) == v.t \in {"str", "list"}

Min(a, b) == IF a <= b THEN a ELSE b

\* mutant of Take: the slice keeps the whole value
TakeAll(s, n) == s

\* s[:n] on a token sequence
Take(s, n) == SubSeq(s, 1, Min(n, Len(s)))

\* v[:n] on a str or list value
Slice(v, n) ==
    IF v.t = "str" THEN Str(Take(v.s, n)) ELSE List(Take(v.e, n))

(***************************************************************************)
(* str methods on token sequences                                          *)
(***************************************************************************)
\* a literal substring
Lit(c) == [k |-> "lit", c |-> c]

\* the text of a JSON document of value v.  q = "plain": strict JSON;
\* "curly": its quotes are curly quotes; "dash": its minus signs are en/em
\* dashes; "rawnl": a raw line break inside a string literal; "bad": no JSON
\* whatever is replaced
JsonText(v, q) == [k |-> "json", v |-> v, q |-> q]

Whitespace == {Lit(" "), Lit("\n"), Lit("\t"), Lit("\r")}

RECURSIVE LStrip(_)
LStrip(s) ==
    IF s # <<>> /\ Head(s) \in Whitespace THEN LStrip(Tail(s)) ELSE s

RECURSIVE RStrip(_)
RStrip(s) ==
    IF s # <<>> /\ s[Len(s)] \in Whitespace
    THEN RStrip(SubSeq(s, 1, Len(s) - 1))
    ELSE s

\* s.strip()
Strip(s) == RStrip(LStrip(s))

\* position of the first occurrence of pat in s, 0 when pat is not in s
IndexOf(s, pat) ==
    LET hits == {i \in 1..(Len(s) - Len(pat) + 1) :
                    SubSeq(s, i, i + Len(pat) - 1) = pat}
    IN  IF hits = {} THEN 0 ELSE CHOOSE i \in hits : \A j \in hits : i <= j

\* pat in s
Contains(s, pat) == IndexOf(s, pat) # 0

\* s.split(pat)[0]
SplitFirst(s, pat) ==
    IF Contains(s, pat) THEN SubSeq(s, 1, IndexOf(s, pat) - 1) ELSE s

\* s.split(pat)[1], for pat in s
SplitSecond(s, pat) ==
    SplitFirst(SubSeq(s, IndexOf(s, pat) + Len(pat), Len(s)), pat)

\* mutant of LowerToken: the comparison keeps the case
SameToken(tok) == tok

\* s.lower(), token by token
LowerToken(tok) ==
    CASE tok = Lit("BUY")  -> Lit("buy")
      [] tok = Lit("Buy")  -> Lit("buy")
      [] tok = Lit("SELL") -> Lit("sell")
      [] tok = Lit("HOLD") -> Lit("hold")
      [] tok = Lit("Hold") -> Lit("hold")
      [] OTHER             -> tok

Lower(s) == [i \in 1..Len(s) |-> LowerToken(s[i])]

\* sep.join(parts), parts a sequence of token sequences
RECURSIVE Join(_, _)
Join(parts, sep) ==
    IF parts = <<>> THEN <<>>
    ELSE IF Len(parts) = 1 THEN parts[1]
    ELSE parts[1] \o sep \o Join(Tail(parts), sep)

(***************************************************************************)
(* Response normalizer                                                     *)
(***************************************************************************)
\* the texts of the blocks of a content list that are tagged "text"
RECURSIVE TextParts(_)
TextParts(blocks) ==
    IF blocks = <<>> THEN <<>>
    ELSE LET block == Head(blocks)
         IN  IF IsDict(block) /\ Get(block, "type", None) = Str(<<Lit("text")>>)
             THEN <<Get(block, "text", Str(<<>>))>> \o TextParts(Tail(blocks))
             ELSE TextParts(Tail(blocks))

\* _get_content_from_response.  An exception inside (choices[0] of a value
\* that is no list, .get of a value that is no dict, join of a part that is
\* no str) is caught at line 400 and gives "".
_get_content_from_response(api_result) ==
    LET choices == Get(api_result, "choices", List(<<>>))
    IN  IF ~Truthy(choices) THEN Str(<<>>)
        ELSE IF ~IsList(choices) \/ ~HasGet(choices.e[1]) THEN Str(<<>>)
        ELSE LET msg == Get(choices.e[1], "message", EmptyDict)
             IN  IF ~HasGet(msg) THEN Str(<<>>)
                 ELSE LET content == Get(msg, "content", Str(<<>>))
                      IN  IF IsList(content)
                          THEN LET text_parts == TextParts(content.e)
                               IN  IF \A i \in 1..Len(text_parts) : IsStr(text_parts[i])
                                   THEN Str(Join([i \in 1..Len(text_parts) |-> text_parts[i].s],
                                                 <<Lit("\n")>>))
                                   ELSE Str(<<>>)
                          ELSE IF Truthy(content) THEN content ELSE Str(<<>>)

\* v and isinstance(v, str) and v.strip()
NonBlankStr(v) == IsStr(v) /\ Strip(v.s) # <<>>

\* Strategy 1: message.reasoning, message.reasoning_content
ReasoningFields(msg) ==
    LET one(field) == IF NonBlankStr(Get(msg, field, None))
                      THEN <<Strip(Get(msg, field, None).s)>> ELSE <<>>
    IN  one("reasoning") \o one("reasoning_content")

\* mutant of ThinkingBlocks: the search stops at the first thinking block
RECURSIVE FirstThinkingBlock(_)
FirstThinkingBlock(blocks) ==
    IF blocks = <<>> THEN <<>>
    ELSE LET block == Head(blocks)
             thinking_text == IF IsDict(block) THEN Get(block, "thinking", None) ELSE None
         IN  IF IsDict(block) /\ Get(block, "type", None) = Str(<<Lit("thinking")>>)
                /\ NonBlankStr(thinking_text)
             THEN <<Strip(thinking_text.s)>>
             ELSE FirstThinkingBlock(Tail(blocks))

\* Strategy 2: thinking blocks of the content array
RECURSIVE ThinkingBlocks(_)
ThinkingBlocks(blocks) ==
    IF blocks = <<>> THEN <<>>
    ELSE LET block == Head(blocks)
             thinking_text == IF IsDict(block) THEN Get(block, "thinking", None) ELSE None
         IN  IF IsDict(block) /\ Get(block, "type", None) = Str(<<Lit("thinking")>>)
                /\ NonBlankStr(thinking_text)
             THEN <<Strip(thinking_text.s)>> \o ThinkingBlocks(Tail(blocks))
             ELSE ThinkingBlocks(Tail(blocks))

\* Strategy 3: parts flagged thought = true
RECURSIVE ThoughtParts(_)
ThoughtParts(parts) ==
    IF parts = <<>> THEN <<>>
    ELSE LET part == Head(parts)
             thought_text == IF IsDict(part) THEN Get(part, "text", None) ELSE None
         IN  IF IsDict(part) /\ Get(part, "thought", None) = Bool(TRUE)
                /\ NonBlankStr(thought_text)
             THEN <<Strip(thought_text.s)>> \o ThoughtParts(Tail(parts))
             ELSE ThoughtParts(Tail(parts))

_extract_reasoning_from_response(api_result) ==
    LET choices == Get(api_result, "choices", None)
    IN  IF ~Truthy(choices) \/ ~IsList(choices) THEN Str(<<>>)
        ELSE IF ~IsDict(choices.e[1]) THEN Str(<<>>)
        ELSE LET msg == Get(choices.e[1], "message", None)
             IN  IF ~IsDict(msg) THEN Str(<<>>)
                 ELSE LET content_array == Get(msg, "content", None)
                          parts_array   == Get(msg, "parts", None)
                          reasoning_parts ==
                              ReasoningFields(msg)
                              \o (IF IsList(content_array)
                                  THEN ThinkingBlocks(content_array.e) ELSE <<>>)
                              \o (IF IsList(parts_array)
                                  THEN ThoughtParts(parts_array.e) ELSE <<>>)
                      IN  Str(Join(reasoning_parts, <<Lit("\n"), Lit("\n")>>))

(***************************************************************************)
(* Decision parser                                                         *)
(***************************************************************************)
\* the fence of a code block, three backquotes, is the token "<fence>"
Fence == <<Lit("<fence>")>>

FenceJson == <<Lit("<fence>"), Lit("json")>>

\* mutant of cleaned_content: the fences are left in the working text
cleaned_unfenced(response) == Strip(response)

\* Step 1 (lines 416-422): the working text
cleaned_content(response) ==
    LET stripped == Strip(response)
    IN  IF Contains(stripped, FenceJson)
        THEN Strip(SplitFirst(SplitSecond(stripped, FenceJson), Fence))
        ELSE IF Contains(stripped, Fence)
        THEN Strip(SplitFirst(SplitSecond(stripped, Fence), Fence))
        ELSE stripped

\* json.loads: the text, white space around it aside, is one strict document
JsonLoads(s) ==
    LET body == Strip(s)
    IN  IF Len(body) = 1 /\ body[1].k = "json" /\ body[1].q = "plain"
        THEN [ok |-> TRUE, v |-> body[1].v]
        ELSE [ok |-> FALSE, v |-> None]

\* Step 3 (lines 430-438): the replacements, token by token.  Line 436
\* reads  replace(""", '"').replace(""", '"')  with straight quotes: its first
\* argument is the triple-quoted literal  , '"').replace(  , and line 437
\* replaces ' by '.  The curly quotes U+201C, U+201D, U+2018, U+2019 are
\* therefore left as they are; only line 438 (the dashes) and lines 431-433
\* (the white space) change a text.
NormalizeToken(tok) ==
    CASE tok \in {Lit("\n"), Lit("\r"), Lit("\t")} -> Lit(" ")
      [] tok = Lit(", '\"').replace(") -> Lit("\"")
      [] tok = Lit("'") -> Lit("'")
      [] tok \in {Lit("U+2013"), Lit("U+2014"), Lit("U+2011")} -> Lit("-")
      [] tok.k = "json" /\ tok.q \in {"dash", "rawnl"} -> JsonText(tok.v, "plain")
      [] OTHER -> tok

Normalize(s) == [i \in 1..Len(s) |-> NormalizeToken(s[i])]

\* Steps 2 and 3 (lines 424-444): strict parsing, then one retry on the
\* cleaned text
LoadDecision(text) ==
    IF JsonLoads(text).ok THEN JsonLoads(text) ELSE JsonLoads(Normalize(text))

\* d[key] = value on a dict value (a copy)
SetKey(v, key, value) ==
    Dict([k \in DOMAIN v.d \cup {key} |-> IF k = key THEN value ELSE v.d[k]])

\* Step 4 (lines 449-468): shape resolution
ResolveShape(decision, response) ==
    IF IsDict(decision) /\ IsList(Get(decision, "decisions", None))
    THEN LET decisions == Get(decision, "decisions", None)
         IN  IF Truthy(decisions) /\ IsDict(decisions.e[1])
             THEN SetKey(decisions.e[1], "_reasoning", Str(Take(response, 2000)))
             ELSE None
    ELSE IF IsList(decision) /\ Truthy(decision)
    THEN IF IsDict(decision.e[1])
         THEN SetKey(decision.e[1], "_reasoning", Str(Take(response, 2000)))
         ELSE None
    ELSE IF IsDict(decision) /\ "operation" \in DOMAIN decision.d
    THEN SetKey(decision, "_reasoning", Str(Take(response, 2000)))
    ELSE None

\* _parse_decision raises (AttributeError at line 416) on a truthy value that
\* is no str
_parse_decision_raises(response) == Truthy(response) /\ ~HasStrip(response)

\* _parse_decision on a str value (or a falsy one): a dict value, or None
_parse_decision(response) ==
    IF ~Truthy(response) THEN None
    ELSE LET loaded == LoadDecision(cleaned_content(response.s))
         IN  IF ~loaded.ok THEN None
             ELSE IF ~Truthy(loaded.v) THEN None
             ELSE ResolveShape(loaded.v, response.s)

(***************************************************************************)
(* Model invoker: _call_llm_with_config.  The endpoints are those that     *)
(* build_chat_completion_endpoints returned; answers[i] is what the        *)
(* provider does with the request sent to endpoint i.                      *)
(***************************************************************************)
\* requests.post raises (connection error, timeout)
PostRaises == [kind |-> "exception", status_code |-> 0, data |-> None]

\* the body of a response that is no JSON: response.json() raises
NotJson == [t |-> "notjson"]

\* requests.post returns a response
Http(status_code, data) == [kind |-> "http", status_code |-> status_code, data |-> data]

\* lines 314-318: the response is returned to the caller
EndpointAccepts(answer) ==
    /\ answer.kind = "http"
    /\ answer.status_code = 200
    /\ answer.data # NotJson
    /\ HasGet(answer.data)
    /\ Truthy(Get(answer.data, "choices", List(<<>>)))

\* mutant of TryEndpoints: the loop gives up at the first endpoint that fails
RECURSIVE TryFirstEndpoint(_)
TryFirstEndpoint(answers) ==
    IF answers = <<>> THEN [v |-> None, sent |-> 0]
    ELSE IF EndpointAccepts(Head(answers))
    THEN [v |-> Head(answers).data, sent |-> 1]
    ELSE [v |-> None, sent |-> 1]

\* lines 304-326: the loop over the endpoints; sent counts the requests
RECURSIVE TryEndpoints(_)
TryEndpoints(answers) ==
    IF answers = <<>> THEN [v |-> None, sent |-> 0]
    ELSE IF EndpointAccepts(Head(answers))
    THEN [v |-> Head(answers).data, sent |-> 1]
    ELSE LET rest == TryEndpoints(Tail(answers))
         IN  [v |-> rest.v, sent |-> rest.sent + 1]

\* v has a method .lower
HasLower(v) == v.t = "str"

\* config: the account_config of lines 77-81.  model.lower() at line 265
\* raises on a model that is no str, before the first request.
_call_llm_with_config(config, answers) ==
    IF ~HasLower(config.model)
    THEN [raised |-> TRUE, error |-> <<Lit("AttributeError"), Lit(config.model.t), Lit("lower")>>,
          v |-> None, sent |-> 0]
    ELSE IF answers = <<>>
    THEN [raised |-> FALSE, error |-> <<>>, v |-> None, sent |-> 0]
    ELSE [raised |-> FALSE, error |-> <<>>,
          v |-> TryEndpoints(answers).v, sent |-> TryEndpoints(answers).sent]

(***************************************************************************)
(* Item worker: _process_and_save_item up to its call of _save_item_result *)
(***************************************************************************)
\* json.dumps(v)
JsonDumps(v) == Str(<<JsonText(v, "plain")>>)

\* str(e) of the AttributeError a method call on a wrong type raises
AttributeErrorText(v, method) == <<Lit("AttributeError"), Lit(v.t), Lit(method)>>

\* the dict handed to _save_item_result on a failure
FailureResult(error, raw_response) ==
    [success |-> FALSE, error |-> error, raw_response |-> raw_response,
     operation |-> None, symbol |-> None, target_portion |-> None,
     reasoning |-> None, decision_json |-> None,
     decision_changed |-> None, change_type |-> None]

\* [saved |-> TRUE, result |-> r]: _save_item_result(item_id, task_id, r) is
\* called; [saved |-> FALSE]: the exception left the worker
Saved(r) == [saved |-> TRUE, result |-> r]

Escaped == [saved |-> FALSE, result |-> FailureResult(None, None)]

\* the handler of lines 186-192: the dict literal evaluates content[:2000]
\* when content is truthy, before _save_item_result is called
ExceptHandler(error, content) ==
    IF ~Truthy(content) THEN Saved(FailureResult(Str(Take(error, 500)), None))
    ELSE IF Sliceable(content)
    THEN Saved(FailureResult(Str(Take(error, 500)), Slice(content, 2000)))
    ELSE Escaped

\* lines 166-184: classification and the success result
SuccessResult(decision, original_operation, reasoning, content) ==
    LET operation == Get(decision, "operation", None)
        new_op  == Lower(IF Truthy(operation) THEN operation.s ELSE <<>>)
        orig_op == Lower(IF Truthy(original_operation)
                         THEN original_operation.s ELSE <<>>)
        decision_changed == orig_op # new_op
        change_type == IF decision_changed
                       THEN Str(orig_op \o <<Lit("_to_")>> \o new_op) ELSE None
        final_reasoning == IF Truthy(reasoning) THEN reasoning
                           ELSE Slice(content, 2000)
    IN  [success |-> TRUE, error |-> None, raw_response |-> None,
         operation |-> operation,
         symbol |-> Get(decision, "symbol", None),
         target_portion |-> Get(decision, "target_portion_of_balance", None),
         reasoning |-> final_reasoning,
         decision_json |-> JsonDumps(decision),
         decision_changed |-> Bool(decision_changed),
         change_type |-> change_type]

\* llm: what _call_llm_with_config did: [raised |-> TRUE, error |-> text] or
\* [raised |-> FALSE, v |-> None or the response dict]
_process_and_save_item(original_operation, llm) ==
    IF llm.raised THEN ExceptHandler(llm.error, None)
    ELSE IF ~Truthy(llm.v)
    THEN Saved(FailureResult(Str(<<Lit("LLM call failed - no response")>>), None))
    ELSE LET content   == _get_content_from_response(llm.v)
             reasoning == _extract_reasoning_from_response(llm.v)
         IN  IF ~Truthy(content)
             THEN Saved(FailureResult(Str(<<Lit("LLM call failed - empty content")>>), None))
             ELSE IF _parse_decision_raises(content)
             THEN ExceptHandler(AttributeErrorText(content, "strip"), content)
             ELSE LET decision == _parse_decision(content)
                  IN  IF ~Truthy(decision)
                      THEN Saved(FailureResult(Str(<<Lit("Failed to parse decision")>>),
                                               Slice(content, 2000)))
                      ELSE LET operation == Get(decision, "operation", None)
                           IN  IF Truthy(operation) /\ ~IsStr(operation)
                               THEN ExceptHandler(AttributeErrorText(operation, "lower"),
                                                  content)
                               ELSE Saved(SuccessResult(decision, original_operation,
                                                        reasoning, content))

(***************************************************************************)
(* Bounds and inputs                                                       *)
(***************************************************************************)
\* most inputs of one create request
MaxItems == 2

\* retry requests sent to the task
MaxRetries == 1

ItemIds == 1..MaxItems

RetryIds == 1..MaxRetries

\* one execution is scheduled by the create request and one by each retry
ExecIds == 1..(MaxRetries + 1)

Timestamp == [t |-> "datetime"]

\* an input of the create request: the AIDecisionLog row it references, None
\* when there is no such row
MissingLog == [found |-> FALSE, operation |-> None]

FoundLog(operation) == [found |-> TRUE, operation |-> operation]

DecisionLogs == {MissingLog, FoundLog(Str(<<Lit("HOLD")>>))}

RECURSIVE SeqsUpTo(_, _)
SeqsUpTo(S, n) ==
    IF n = 0 THEN {<<>>}
    ELSE LET shorter == SeqsUpTo(S, n - 1)
         IN  shorter \cup {Append(q, x) : q \in {r \in shorter : Len(r) = n - 1}, x \in S}

CreateRequests == SeqsUpTo(DecisionLogs, MaxItems)

\* what _call_llm_with_config does for one item
Raise(error) == [raised |-> TRUE, error |-> error, v |-> None]

Return(v) == [raised |-> FALSE, error |-> <<>>, v |-> v]

\* a provider response whose first choice's message has this content
ApiResponse(content) ==
    Dict([choices |-> List(<<Dict([message |-> Dict([content |-> content])])>>)])

DecisionBuy ==
    Dict([operation |-> Str(<<Lit("buy")>>), symbol |-> Str(<<Lit("BTC")>>),
          target_portion_of_balance |-> Num(1)])

\* a decision; a text that holds no decision; a content that is an object
\* instead of a text
LlmResults ==
    { Return(ApiResponse(Str(<<JsonText(DecisionBuy, "plain")>>))),
      Return(ApiResponse(Str(<<Lit("I would wait.")>>))),
      Return(ApiResponse(Dict([text |-> Str(<<Lit("buy")>>)]))) }

(***************************************************************************)
(* State: the stored rows and the requests in progress                     *)
(***************************************************************************)
VARIABLES
    task,      \* the prompt_backtest_tasks row
    items,     \* the prompt_backtest_items rows of the task, by item id
    execs,     \* the calls of execute_backtest_task, by order of scheduling
    retries,   \* the calls of retry_failed_items, by order of arrival
    response,  \* what the retry request that returned last answered
    call,      \* the last call of a function taken by itself: name, arguments, result
    pool,      \* one call of _process_items_realtime: its thread pool and futures
    db,        \* two tasks of one account, their items and their executions
    deletion   \* the call of delete_task: its position and its answer

vars == <<task, items, execs, retries, response, call, pool, db, deletion>>

NoTask ==
    [exists |-> FALSE, status |-> "pending", total_count |-> 0,
     completed_count |-> 0, failed_count |-> 0, started_at |-> None,
     finished_at |-> None, error_message |-> None]

NoItem ==
    [exists |-> FALSE, status |-> "pending", original_operation |-> None,
     error_message |-> None, new_operation |-> None, new_symbol |-> None,
     new_target_portion |-> None, new_reasoning |-> None,
     new_decision_json |-> None, decision_changed |-> None,
     change_type |-> None]

\* running: the items whose future, submitted at lines 105-113, has not
\* finished
NoExec == [pc |-> "unscheduled", running |-> {}]

NoResponse == [status_code |-> 0, success |-> FALSE, retry_count |-> 0]

\* task: the task as line 448 loaded it; failed_items: the items as line 456
\* loaded them
NoRetry == [pc |-> "idle", task |-> NoTask, failed_items |-> <<>>]

NoCall == [fn |-> "", args |-> <<>>, result |-> None]

NoPool ==
    [pc |-> "idle", n |-> 0, submitted |-> 0, inflight |-> 0, done |-> 0,
     threads |-> 0, idle |-> 0]

NoDb == [open |-> FALSE]

NoDeletion == [pc |-> "idle", status_code |-> 0]

Init ==
    /\ task = NoTask
    /\ items = [i \in ItemIds |-> NoItem]
    /\ execs = [e \in ExecIds |-> NoExec]
    /\ retries = [r \in RetryIds |-> NoRetry]
    /\ response = NoResponse
    /\ call = NoCall
    /\ pool = NoPool
    /\ db = NoDb
    /\ deletion = NoDeletion

\* background_tasks.add_task(execute_backtest_task, task.id)
NextExec(ex) == CHOOSE e \in ExecIds :
    ex[e].pc = "unscheduled" /\ \A d \in 1..(e - 1) : ex[d].pc # "unscheduled"

AddTask(ex) == [ex EXCEPT ![NextExec(ex)].pc = "scheduled"]

(***************************************************************************)
(* create_backtest_task                                                    *)
(***************************************************************************)
\* the logs of the request that exist, in request order
FoundLogs(request) == SelectSeq(request, LAMBDA log : log.found)

\* mutant of NewItem: the item is created without the snapshot
NewItemUnsnapshotted(log) == [NoItem EXCEPT !.exists = TRUE]

\* lines 208-221: the item row, with the snapshot of the log
NewItem(log) ==
    [NoItem EXCEPT !.exists = TRUE, !.original_operation = log.operation]

NewTask(request) ==
    [NoTask EXCEPT !.exists = TRUE, !.total_count = Len(request)]

create_backtest_task(account_found, request) ==
    /\ ~task.exists
    /\ execs[1].pc = "unscheduled"
    /\ IF ~account_found
       THEN UNCHANGED vars
       ELSE /\ task' = NewTask(request)
            /\ items' = [i \in ItemIds |->
                            IF i <= Len(FoundLogs(request))
                            THEN NewItem(FoundLogs(request)[i]) ELSE NoItem]
            /\ execs' = AddTask(execs)
            /\ UNCHANGED <<retries, response, call, pool, db, deletion>>

(***************************************************************************)
(* execute_backtest_task                                                   *)
(***************************************************************************)
\* mutant of StartedTask: the start is stamped but the status is left alone
StartedTaskUnmarked(t) == [t EXCEPT !.started_at = Timestamp]

\* lines 48-49
StartedTask(t) == [t EXCEPT !.status = "running", !.started_at = Timestamp]

\* lines 39-50: the task is read, marked running and committed
ExecStart(e) ==
    /\ execs[e].pc = "scheduled"
    /\ IF ~task.exists
       THEN /\ execs' = [execs EXCEPT ![e].pc = "returned"]
            /\ UNCHANGED task
       ELSE /\ task' = StartedTask(task)
            /\ execs' = [execs EXCEPT ![e].pc = "started"]
    /\ UNCHANGED <<items, retries, response, call, pool, db, deletion>>

\* lines 62-65: the items of the task that are pending
PendingItems(its) == {i \in ItemIds : its[i].exists /\ its[i].status = "pending"}

\* mutant of FailedTask: the failure is stored without its finish time
FailedTaskUnfinished(t) ==
    [t EXCEPT !.status = "failed",
              !.error_message = Str(<<Lit("Account not found")>>)]

\* lines 54-56
FailedTask(t) ==
    [t EXCEPT !.status = "failed",
              !.error_message = Str(<<Lit("Account not found")>>),
              !.finished_at = Timestamp]

\* lines 52-84 and 104-113: the account is looked up; without it the task
\* fails; with it every pending item is submitted to the pool.  The commit of
\* line 57 updates the row of the task object read at line 40: when the row
\* is gone the UPDATE matches no row and the session raises.
ExecLoad(e, account_found) ==
    /\ execs[e].pc = "started"
    /\ IF ~account_found
       THEN IF task.exists
            THEN /\ task' = FailedTask(task)
                 /\ execs' = [execs EXCEPT ![e].pc = "returned"]
            ELSE /\ execs' = [execs EXCEPT ![e].pc = "raised"]
                 /\ UNCHANGED task
       ELSE /\ execs' = [execs EXCEPT ![e].pc = "dispatched",
                                     ![e].running = PendingItems(items)]
            /\ UNCHANGED task
    /\ UNCHANGED <<items, retries, response, call, pool, db, deletion>>

\* mutant of AtomicIncrement: the worker writes back a count computed from
\* the value the task had when the batch was loaded
StaleIncrement(stored) == Min(stored + 1, 1)

\* UPDATE prompt_backtest_tasks SET c = c + 1 (lines 215-218, 225-228): the
\* stored count, incremented by the database
AtomicIncrement(stored) == stored + 1

\* lines 205-213 and 220-223: the item row after _save_item_result
SavedItem(item, result) ==
    IF result.success
    THEN [item EXCEPT !.status = "completed",
                      !.new_operation = result.operation,
                      !.new_symbol = result.symbol,
                      !.new_target_portion = result.target_portion,
                      !.new_reasoning = result.reasoning,
                      !.new_decision_json = result.decision_json,
                      !.decision_changed = result.decision_changed,
                      !.change_type = result.change_type]
    ELSE [item EXCEPT !.status = "failed",
                      !.error_message = Str(Take(result.error.s, 500)),
                      !.new_reasoning = IF Truthy(result.raw_response)
                                        THEN result.raw_response
                                        ELSE item.new_reasoning]

\* lines 214-218 and 224-228: the task row after _save_item_result
CountedTask(t, result) ==
    IF result.success
    THEN [t EXCEPT !.completed_count = AtomicIncrement(t.completed_count)]
    ELSE [t EXCEPT !.failed_count = AtomicIncrement(t.failed_count)]

\* one pool thread runs _process_and_save_item for item i: the model call,
\* the parsing and the single transaction of _save_item_result.  The
\* original operation is the one copied into item_data at line 72; the row's
\* never changes after its creation.
ItemWorker(e, i, llm) ==
    /\ execs[e].pc = "dispatched"
    /\ i \in execs[e].running
    /\ execs' = [execs EXCEPT ![e].running = @ \ {i}]
    /\ LET outcome == _process_and_save_item(items[i].original_operation, llm)
       IN  IF ~outcome.saved \/ ~items[i].exists
           THEN UNCHANGED <<task, items>>
           ELSE /\ items' = [items EXCEPT ![i] = SavedItem(items[i], outcome.result)]
                /\ task' = CountedTask(task, outcome.result)
    /\ UNCHANGED <<retries, response, call, pool, db, deletion>>

\* mutant of AllResolved: the coordinator waits for a future that no thread
\* completes
NeverResolved(running) == running = {} /\ running # {}

\* mutant of AllResolved: the coordinator does not wait for the futures
NotAwaited(running) == TRUE

\* lines 104-120: the with block of the pool ends, and the loop over
\* as_completed has seen every future, when no future is still running; an
\* exception of a future is logged at line 120
AllResolved(running) == running = {}

\* mutant of FinalizedTask: the finalization settles the counters as well
FinalizedTaskRecounted(t) ==
    [t EXCEPT !.status = "completed", !.finished_at = Timestamp,
              !.completed_count = t.total_count - t.failed_count]

\* mutant of FinalizedTask: a run with failed items ends in status failed
FinalizedTaskByFailures(t) ==
    [t EXCEPT !.status = IF t.failed_count > 0 THEN "failed" ELSE "completed",
              !.finished_at = Timestamp]

\* lines 91-92
FinalizedTask(t) == [t EXCEPT !.status = "completed", !.finished_at = Timestamp]

\* lines 86-93: the task is read again; when the query of lines 88-90 finds
\* no row, task is None and line 91 raises AttributeError
ExecFinalize(e) ==
    /\ execs[e].pc = "dispatched"
    /\ AllResolved(execs[e].running)
    /\ IF task.exists
       THEN /\ task' = FinalizedTask(task)
            /\ execs' = [execs EXCEPT ![e].pc = "finished"]
       ELSE /\ execs' = [execs EXCEPT ![e].pc = "raised"]
            /\ UNCHANGED task
    /\ UNCHANGED <<items, retries, response, call, pool, db, deletion>>

(***************************************************************************)
(* retry_failed_items.  The handler reads the task (line 448), then reads  *)
(* the failed items (line 456), then assigns and commits (line 485); other *)
(* requests and the pool threads run between these statements.  The task   *)
(* and the items are objects of the handler's session: the UPDATE that the *)
(* commit flushes sets the columns whose assigned value differs from the   *)
(* value the object was loaded with, and no other column.                  *)
(***************************************************************************)
Rejected == [status_code |-> 400, success |-> FALSE, retry_count |-> 0]

NothingToRetryResponse == [status_code |-> 200, success |-> FALSE, retry_count |-> 0]

Retrying(n) == [status_code |-> 200, success |-> TRUE, retry_count |-> n]

\* lines 448-453; requests are numbered in the order in which they arrive
RetryCheck(r) ==
    /\ retries[r].pc = "idle"
    /\ \A q \in 1..(r - 1) : retries[q].pc # "idle"
    /\ task.exists
    /\ IF task.status = "running"
       THEN /\ retries' = [retries EXCEPT ![r].pc = "done"]
            /\ response' = Rejected
       ELSE /\ retries' = [retries EXCEPT ![r].pc = "checked", ![r].task = task]
            /\ UNCHANGED response
    /\ UNCHANGED <<task, items, execs, call, pool, db, deletion>>

\* lines 456-459: the rows of the failed items, by item id
FailedItems(its) ==
    [i \in {j \in ItemIds : its[j].exists /\ its[j].status = "failed"} |-> its[i]]

\* mutant of NothingToRetry: the early return of lines 461-466 is missing
NeverNothingToRetry(failed_items) == FALSE

\* line 461
NothingToRetry(failed_items) == DOMAIN failed_items = {}

\* lines 455-466
RetryQuery(r) ==
    /\ retries[r].pc = "checked"
    /\ IF NothingToRetry(FailedItems(items))
       THEN /\ retries' = [retries EXCEPT ![r] = [NoRetry EXCEPT !.pc = "done"]]
            /\ response' = NothingToRetryResponse
       ELSE /\ retries' = [retries EXCEPT ![r].pc = "queried",
                                          ![r].failed_items = FailedItems(items)]
            /\ UNCHANGED response
    /\ UNCHANGED <<task, items, execs, call, pool, db, deletion>>

\* the UPDATE of one row at the commit: stored is the row in the database,
\* loaded the row as the session read it, assigned the attributes set since
Flush(stored, loaded, assigned) ==
    [f \in DOMAIN stored |->
        IF f \in DOMAIN assigned /\ assigned[f] # loaded[f]
        THEN assigned[f] ELSE stored[f]]

\* lines 469-478
ResetItem ==
    [status |-> "pending", error_message |-> None, new_operation |-> None,
     new_symbol |-> None, new_target_portion |-> None, new_reasoning |-> None,
     new_decision_json |-> None, decision_changed |-> None,
     change_type |-> None]

\* lines 480-483
RetriedTask ==
    [status |-> "pending", failed_count |-> 0, finished_at |-> None]

\* lines 468-495
RetryCommit(r) ==
    /\ retries[r].pc = "queried"
    /\ items' = [i \in ItemIds |->
                    IF i \in DOMAIN retries[r].failed_items
                    THEN Flush(items[i], retries[r].failed_items[i], ResetItem)
                    ELSE items[i]]
    /\ task' = Flush(task, retries[r].task, RetriedTask)
    /\ execs' = AddTask(execs)
    /\ retries' = [retries EXCEPT ![r] = [NoRetry EXCEPT !.pc = "done"]]
    /\ response' = Retrying(Cardinality(DOMAIN retries[r].failed_items))
    /\ UNCHANGED <<call, pool, db, deletion>>

(***************************************************************************)
(* The system                                                              *)
(***************************************************************************)
Next ==
    \/ \E account_found \in BOOLEAN, request \in CreateRequests :
           create_backtest_task(account_found, request)
    \/ \E e \in ExecIds : ExecStart(e)
    \/ \E e \in ExecIds, account_found \in BOOLEAN : ExecLoad(e, account_found)
    \/ \E e \in ExecIds, i \in ItemIds, llm \in LlmResults : ItemWorker(e, i, llm)
    \/ \E e \in ExecIds : ExecFinalize(e)
    \/ \E r \in RetryIds : RetryCheck(r)
    \/ \E r \in RetryIds : RetryQuery(r)
    \/ \E r \in RetryIds : RetryCommit(r)

Spec == Init /\ [][Next]_vars

\* the step ItemWorker(e, i, llm) of whatever llm, by what it does to the
\* futures of the execution: the future of item i is done
WorkerRuns(e, i) ==
    /\ execs[e].pc = "dispatched"
    /\ i \in execs[e].running
    /\ execs' = [execs EXCEPT ![e].running = @ \ {i}]

\* the steps of an execution: a scheduled background task is run and goes on
\* to its end (lines 34-93); a pool thread runs each submitted item, whose
\* model call returns or fails within the request timeout of line 302
ExecProgress ==
    \/ \E e \in ExecIds : ExecStart(e)
    \/ \E e \in ExecIds, account_found \in BOOLEAN : ExecLoad(e, account_found)
    \/ \E e \in ExecIds, i \in ItemIds : WorkerRuns(e, i)
    \/ \E e \in ExecIds : ExecFinalize(e)

\* the steps of a retry handler that has read the task (lines 456-495)
RetryProgress ==
    \/ \E r \in RetryIds : RetryQuery(r)
    \/ \E r \in RetryIds : RetryCommit(r)

\* Scheduling: running code is not stopped for ever.  Requests arrive or
\* not.
Fairness == WF_execs(ExecProgress) /\ WF_retries(RetryProgress)

SpecFair == Spec /\ Fairness

(***************************************************************************)
(* delete_task, while the task is created and executed.  The handler reads *)
(* the task and its status (routes lines 427-432), then deletes and        *)
(* commits (lines 434-435); the background execution and the pool threads  *)
(* run between these statements.                                           *)
(***************************************************************************)
Deleted(status_code) == [pc |-> "done", status_code |-> status_code]

\* line 431
DeleteRejected(status) == status = "running"

\* lines 427-432
DeleteCheck ==
    /\ deletion.pc = "idle"
    /\ deletion' = IF ~task.exists THEN Deleted(404)
                   ELSE IF DeleteRejected(task.status) THEN Deleted(400)
                   ELSE [deletion EXCEPT !.pc = "checked"]
    /\ UNCHANGED <<task, items, execs, retries, response, call, pool, db>>

\* lines 434-437: the row of the task is deleted, whatever its status is by
\* now, and with it the rows of its items ("Delete a backtest task and all
\* its items", line 427)
DeleteCommit ==
    /\ deletion.pc = "checked"
    /\ task' = NoTask
    /\ items' = [i \in ItemIds |-> NoItem]
    /\ deletion' = Deleted(200)
    /\ UNCHANGED <<execs, retries, response, call, pool, db>>

NextDelete ==
    \/ \E account_found \in BOOLEAN, request \in CreateRequests :
           create_backtest_task(account_found, request)
    \/ \E e \in ExecIds : ExecStart(e)
    \/ \E e \in ExecIds, account_found \in BOOLEAN : ExecLoad(e, account_found)
    \/ \E e \in ExecIds, i \in ItemIds, llm \in LlmResults : ItemWorker(e, i, llm)
    \/ \E e \in ExecIds : ExecFinalize(e)
    \/ DeleteCheck
    \/ DeleteCommit

SpecDelete == Init /\ [][NextDelete]_vars

(***************************************************************************)
(* The functions taken by themselves: one call, on arguments drawn from    *)
(* the sets below; the rows and the requests stay as Init left them.       *)
(***************************************************************************)
Called(fn, args, result) ==
    /\ call.fn = ""
    /\ call' = [fn |-> fn, args |-> args, result |-> result]
    /\ UNCHANGED <<task, items, execs, retries, response, pool, db, deletion>>

\* operation labels, as the decision log and the model spell them
OperationStrings ==
    { <<>>, <<Lit("BUY")>>, <<Lit("Buy")>>, <<Lit("buy")>>, <<Lit("SELL")>>,
      <<Lit("sell")>>, <<Lit("HOLD")>>, <<Lit("hold")>> }

OriginalOperations == {None} \cup {Str(s) : s \in OperationStrings}

\* a decision whose operation is v
DecisionOf(v) == Dict([operation |-> v, symbol |-> Str(<<Lit("BTC")>>)])

\* what _call_llm_with_config does, and what the provider answers
WorkerLlmResults ==
    { Raise(<<Lit("connection reset")>>),
      Return(None),
      Return(ApiResponse(None)),
      Return(ApiResponse(Str(<<>>))),
      Return(ApiResponse(Str(<<Lit("I would wait.")>>))),
      Return(ApiResponse(Str(<<JsonText(DecisionBuy, "plain")>>))),
      Return(ApiResponse(Str(<<JsonText(DecisionBuy, "bad")>>))),
      Return(ApiResponse(Str(<<JsonText(DecisionOf(Num(1)), "plain")>>))),
      Return(ApiResponse(Str(<<JsonText(List(<<Dict([symbol |-> Str(<<Lit("BTC")>>)])>>),
                                        "plain")>>))),
      Return(ApiResponse(List(<<Dict([type |-> Str(<<Lit("text")>>),
                                      text |-> Str(<<JsonText(DecisionBuy, "plain")>>)])>>))),
      Return(ApiResponse(Dict([text |-> Str(<<Lit("buy")>>)]))) }

\* lines 123-192, for one item
CallItemWorker(original_operation, llm) ==
    Called("_process_and_save_item", <<original_operation, llm>>,
           _process_and_save_item(original_operation, llm))

\* lines 166-184, for one decision
CallClassifier(original_operation, new_operation, reasoning) ==
    Called("classify", <<original_operation, new_operation, reasoning>>,
           SuccessResult(DecisionOf(new_operation), original_operation, reasoning,
                         Str(<<JsonText(DecisionOf(new_operation), "plain")>>)))

\* most endpoints that build_chat_completion_endpoints returns
MaxEndpoints == 2

\* provider responses that hold a decision
ResponseA == ApiResponse(Str(<<JsonText(DecisionBuy, "plain")>>))

ResponseB == ApiResponse(Str(<<JsonText(DecisionOf(Str(<<Lit("hold")>>)), "plain")>>))

EndpointAnswers ==
    { PostRaises, Http(500, NotJson), Http(500, ResponseA), Http(200, NotJson),
      Http(200, EmptyDict), Http(200, Dict([choices |-> List(<<>>)])),
      Http(200, ResponseA), Http(200, ResponseB) }

\* account.model: absent, a standard model, a reasoning model
Models == {None, Str(<<Lit("gpt-4o")>>), Str(<<Lit("deepseek-r1")>>)}

AccountConfig(model) ==
    [api_key |-> Str(<<Lit("sk")>>), base_url |-> Str(<<Lit("https://api")>>),
     model |-> model]

\* lines 250-326
CallInvoker(model, answers) ==
    Called("_call_llm_with_config", <<AccountConfig(model), answers>>,
           _call_llm_with_config(AccountConfig(model), answers))

\* most blocks of a content list
MaxBlocks == 2

\* a key that the response does not hold
Absent == [t |-> "absent"]

\* the dict of the keys of fields that are not Absent
DictOf(fields) ==
    Dict([k \in {j \in DOMAIN fields : fields[j] # Absent} |-> fields[k]])

TextBlock(text) == Dict([type |-> Str(<<Lit("text")>>), text |-> text])

ThinkingBlock(thinking) ==
    Dict([type |-> Str(<<Lit("thinking")>>), thinking |-> thinking])

ContentBlocks ==
    { TextBlock(Str(<<Lit("answer")>>)), TextBlock(Str(<<Lit("more")>>)),
      TextBlock(Num(1)),
      ThinkingBlock(Str(<<Lit(" "), Lit("plan")>>)),
      ThinkingBlock(Str(<<Lit("check"), Lit("\n")>>)),
      ThinkingBlock(Str(<<Lit(" ")>>)),
      Str(<<Lit("raw")>>) }

\* message.content: absent, null, texts, numbers, an object, lists of blocks
Contents ==
    { Absent, None, Str(<<>>), Str(<<Lit("answer")>>), Num(0), Num(7),
      Dict([text |-> Str(<<Lit("buy")>>)]) }
    \cup {List(blocks) : blocks \in SeqsUpTo(ContentBlocks, MaxBlocks)}

ReasoningTexts == {Absent, Str(<<Lit(" ")>>), Str(<<Lit(" "), Lit("why"), Lit(" ")>>)}

\* message.parts: absent, or parts of which some are flagged as thoughts
PartsArrays ==
    { Absent,
      List(<<Dict([thought |-> Bool(TRUE), text |-> Str(<<Lit("musing")>>)]),
             Dict([thought |-> Bool(FALSE), text |-> Str(<<Lit("said")>>)])>>) }

\* provider responses, by the fields of the message of the first choice
Responses ==
    { DictOf([choices |-> List(<<DictOf([message |->
          DictOf([content |-> content, reasoning |-> reasoning,
                  reasoning_content |-> reasoning_content, parts |-> parts])])>>)]) :
        content \in Contents, reasoning \in ReasoningTexts,
        reasoning_content \in {Absent, Str(<<Lit("steps")>>)},
        parts \in PartsArrays }

\* provider responses without a message in a first choice
OddResponses ==
    { EmptyDict, Dict([choices |-> List(<<>>)]), Dict([choices |-> None]),
      Dict([choices |-> List(<<Str(<<Lit("x")>>)>>)]),
      Dict([choices |-> List(<<EmptyDict>>)]),
      Dict([choices |-> List(<<Dict([message |-> Str(<<Lit("x")>>)])>>)]) }

\* lines 146-147: the two extractions, on one response
CallNormalizer(api_result) ==
    Called("normalize", <<api_result>>,
           [content   |-> _get_content_from_response(api_result),
            reasoning |-> _extract_reasoning_from_response(api_result)])

\* decision objects, and the documents a response parses to
Decisions == {DecisionOf(Str(<<Lit(op)>>)) : op \in {"buy", "hold"}}

Documents ==
    {Dict([decisions |-> List(ds)]) : ds \in SeqsUpTo(Decisions, 2)}
    \cup {Dict([decisions |-> decisions, operation |-> Str(<<Lit("sell")>>)]) :
             decisions \in {List(<<>>), List(<<Num(7)>>), Str(<<Lit("none")>>), None}
                           \cup {List(<<d>>) : d \in Decisions}}
    \cup {List(ds) : ds \in SeqsUpTo(Decisions \cup {Num(7)}, 2)}
    \cup Decisions
    \cup {EmptyDict, Dict([symbol |-> Str(<<Lit("BTC")>>)]), Num(0), Num(7),
          Str(<<Lit("buy")>>), None, Bool(TRUE)}

\* _parse_decision on the text of one JSON document
CallParser(document) ==
    Called("_parse_decision", <<document>>,
           _parse_decision(Str(<<JsonText(document, "plain")>>)))

\* the text of a document in a fenced block with this tag
Fenced(tag, document) ==
    Fence \o tag \o <<Lit("\n"), JsonText(document, "plain"), Lit("\n")>> \o Fence

\* _parse_decision on one document given in a block tagged json, in an
\* untagged block and with no fence; lead is the white space before it
CallParserFenced(document, lead) ==
    Called("parse_fenced", <<document, lead>>,
           [tagged   |-> _parse_decision(Str(lead \o Fenced(<<Lit("json")>>, document))),
            untagged |-> _parse_decision(Str(lead \o Fenced(<<>>, document))),
            bare     |-> _parse_decision(Str(lead \o <<JsonText(document, "plain")>>))])

\* the defects of a JSON text (see JsonText)
Defects == {"plain", "curly", "dash", "rawnl", "bad"}

\* _parse_decision on the text of one decision that has a defect
CallParserDefective(decision, q) ==
    Called("parse_defective", <<decision, q>>,
           _parse_decision(Str(<<JsonText(decision, q)>>)))

\* most items of a task whose results are summarized
MaxRows == 2

\* realized profits, in tenths: -120.5, 80.0, and no profit recorded
RealizedPnls == {Num(-1205), Num(800), None}

\* the item rows get_task_results reads; a completed row holds the
\* classification that _process_and_save_item gave it
ResultRows ==
    { [status |-> status,
       original_operation |-> Str(<<Lit(orig)>>),
       new_operation |-> IF status = "completed" THEN Str(<<Lit(new)>>) ELSE None,
       decision_changed |-> IF status = "completed"
                            THEN Bool(Lower(<<Lit(orig)>>) # Lower(<<Lit(new)>>))
                            ELSE None,
       original_realized_pnl |-> pnl] :
        status \in {"completed", "failed"}, orig \in {"buy", "SELL", "hold"},
        new \in {"hold", "buy"}, pnl \in RealizedPnls }

\* lines 317-319: the profit (0 when none is recorded) and the lowercase
\* operations of a row
PnlOf(item) ==
    IF Truthy(item.original_realized_pnl) THEN item.original_realized_pnl.n ELSE 0

EntryToHold(item) ==
    /\ Lower(IF Truthy(item.original_operation) THEN item.original_operation.s ELSE <<>>)
           \in {<<Lit("buy")>>, <<Lit("sell")>>}
    /\ Lower(IF Truthy(item.new_operation) THEN item.new_operation.s ELSE <<>>)
           = <<Lit("hold")>>

\* lines 310-329: the loop over the changed items
RECURSIVE SummaryLoop(_, _)
SummaryLoop(changed, acc) ==
    IF changed = <<>> THEN acc
    ELSE LET item == Head(changed)
             pnl  == PnlOf(item)
             loss == EntryToHold(item) /\ pnl < 0
             gain == EntryToHold(item) /\ pnl > 0
         IN  SummaryLoop(Tail(changed),
                 [avoided_loss_count   |-> acc.avoided_loss_count + (IF loss THEN 1 ELSE 0),
                  avoided_loss_amount  |-> acc.avoided_loss_amount + (IF loss THEN pnl ELSE 0),
                  missed_profit_count  |-> acc.missed_profit_count + (IF gain THEN 1 ELSE 0),
                  missed_profit_amount |-> acc.missed_profit_amount + (IF gain THEN pnl ELSE 0)])

\* lines 304-341: the summary of get_task_results
ResultSummary(rows) ==
    LET completed == SelectSeq(rows, LAMBDA i : i.status = "completed")
        failed    == SelectSeq(rows, LAMBDA i : i.status = "failed")
        changed   == SelectSeq(completed, LAMBDA i : Truthy(i.decision_changed))
        unchanged == SelectSeq(completed, LAMBDA i : ~Truthy(i.decision_changed))
        amounts   == SummaryLoop(changed,
                         [avoided_loss_count |-> 0, avoided_loss_amount |-> 0,
                          missed_profit_count |-> 0, missed_profit_amount |-> 0])
    IN  [total |-> Len(rows), completed |-> Len(completed), failed |-> Len(failed),
         changed |-> Len(changed), unchanged |-> Len(unchanged),
         avoided_loss_count   |-> amounts.avoided_loss_count,
         avoided_loss_amount  |-> amounts.avoided_loss_amount,
         missed_profit_count  |-> amounts.missed_profit_count,
         missed_profit_amount |-> amounts.missed_profit_amount]

CallResults(rows) == Called("get_task_results", <<rows>>, ResultSummary(rows))

\* requests over logs of different operations
RequestLogs == DecisionLogs \cup {FoundLog(Str(<<Lit("buy")>>)), FoundLog(None)}

\* lines 158-237 on an empty database: the rows committed and the executions
\* scheduled when the handler returns; nothing when it raises 404 (line 168)
CreatedRows(account_found, request) ==
    IF ~account_found
    THEN [status_code |-> 404, task |-> NoTask, items |-> <<>>,
          execs |-> [e \in ExecIds |-> NoExec]]
    ELSE [status_code |-> 200, task |-> NewTask(request),
          items |-> [i \in 1..Len(FoundLogs(request)) |-> NewItem(FoundLogs(request)[i])],
          execs |-> AddTask([e \in ExecIds |-> NoExec])]

CallCreateTask(account_found, request) ==
    Called("create_backtest_task", <<account_found, request>>,
           CreatedRows(account_found, request))

\* line 189: the characters kept of an error message
ErrorLimit == 500

\* lines 161 and 173: the characters kept of a response content
TextLimit == 2000

\* by how many characters the long inputs exceed a limit
MaxExcess == 1

\* a text of n characters
Pad(n) == [k \in 1..n |-> Lit("x")]

\* a response whose message has this content and this reasoning field
ReasonedResponse(content, reasoning) ==
    Dict([choices |-> List(<<Dict([message |->
        Dict([content |-> content, reasoning |-> reasoning])])>>)])

\* what the model call does, with texts around the limits: an exception of
\* a long message; a long content that is no JSON; a decision followed by
\* a long text, without and with reasoning of the provider; a decision
\* whose operation is a number, followed by a long text
LongLlmResults ==
    {Raise(Pad(n)) : n \in ErrorLimit..(ErrorLimit + MaxExcess)}
    \cup UNION {
        { Return(ApiResponse(Str(Pad(n)))),
          Return(ApiResponse(Str(Fenced(<<Lit("json")>>, DecisionBuy) \o Pad(n)))),
          Return(ReasonedResponse(Str(Fenced(<<Lit("json")>>, DecisionBuy) \o Pad(n)),
                                  Str(<<Lit("why")>>))),
          Return(ApiResponse(Str(Fenced(<<Lit("json")>>, DecisionOf(Num(1))) \o Pad(n)))) } :
        n \in (TextLimit - 1)..(TextLimit + MaxExcess)}

\* lines 123-230 for one pending item: the row that _save_item_result
\* commits, when the worker calls it
CallSaveItem(original_operation, llm) ==
    LET item    == NewItem(FoundLog(original_operation))
        outcome == _process_and_save_item(original_operation, llm)
    IN  Called("_save_item_result", <<original_operation, llm>>,
               [saved |-> outcome.saved,
                item  |-> IF outcome.saved THEN SavedItem(item, outcome.result)
                          ELSE item])

NextCalls ==
    \/ \E original_operation \in OriginalOperations, llm \in WorkerLlmResults :
           CallItemWorker(original_operation, llm)
    \/ \E original_operation \in OriginalOperations,
          new_operation \in OriginalOperations,
          reasoning \in {Str(<<>>), Str(<<Lit("momentum")>>)} :
           CallClassifier(original_operation, new_operation, reasoning)
    \/ \E model \in Models, answers \in SeqsUpTo(EndpointAnswers, MaxEndpoints) :
           CallInvoker(model, answers)
    \/ \E api_result \in Responses \cup OddResponses : CallNormalizer(api_result)
    \/ \E document \in Documents : CallParser(document)
    \/ \E document \in Documents, lead \in {<<>>, <<Lit("\n")>>} :
           CallParserFenced(document, lead)
    \/ \E decision \in Decisions, q \in Defects : CallParserDefective(decision, q)
    \/ \E rows \in SeqsUpTo(ResultRows, MaxRows) : CallResults(rows)
    \/ \E account_found \in BOOLEAN, request \in SeqsUpTo(RequestLogs, MaxItems) :
           CallCreateTask(account_found, request)
    \/ \E llm \in WorkerLlmResults \cup LongLlmResults :
           CallSaveItem(Str(<<Lit("HOLD")>>), llm)

SpecCalls == Init /\ [][NextCalls]_vars

(***************************************************************************)
(* The thread pool of one execution: _process_items_realtime on n items.   *)
(* pool.submitted futures exist, pool.inflight of them are being run by a  *)
(* thread, pool.done have finished; the others wait in the work queue.     *)
(* pool.threads threads were started, pool.idle is the count of the idle   *)
(* semaphore of the executor.                                              *)
(***************************************************************************)
\* line 31
MAX_WORKERS == 20

\* most pending items of the execution
MaxPending == 22

Queued(p) == p.submitted - p.inflight - p.done

\* lines 104-113 begin: the executor is created for the items of the execution
PoolEnter(n) ==
    /\ pool.pc = "idle"
    /\ pool' = [pool EXCEPT !.pc = "submitting", !.n = n]
    /\ UNCHANGED <<task, items, execs, retries, response, call, db, deletion>>

\* mutant of MayStartThread: the executor has no limit
AlwaysStartThread(threads) == TRUE

\* ThreadPoolExecutor(max_workers=MAX_WORKERS), line 104: a thread is
\* started for a submitted item only below the limit
MayStartThread(threads) == threads < MAX_WORKERS

\* executor.submit, lines 105-112: the item is queued; an idle thread is
\* claimed for it, or else a thread is started when the limit allows
PoolSubmit ==
    /\ pool.pc = "submitting"
    /\ pool.submitted < pool.n
    /\ pool' = [pool EXCEPT
                   !.submitted = @ + 1,
                   !.idle = IF pool.idle > 0 THEN @ - 1 ELSE @,
                   !.threads = IF pool.idle = 0 /\ MayStartThread(pool.threads)
                               THEN @ + 1 ELSE @]
    /\ UNCHANGED <<task, items, execs, retries, response, call, db, deletion>>

\* line 115: every item is submitted, the coordinator starts to wait
PoolWait ==
    /\ pool.pc = "submitting"
    /\ pool.submitted = pool.n
    /\ pool' = [pool EXCEPT !.pc = "waiting"]
    /\ UNCHANGED <<task, items, execs, retries, response, call, db, deletion>>

\* a thread that runs no item takes one from the queue
PoolTake ==
    /\ pool.inflight < pool.threads
    /\ Queued(pool) > 0
    /\ pool' = [pool EXCEPT !.inflight = @ + 1]
    /\ UNCHANGED <<task, items, execs, retries, response, call, db, deletion>>

\* a thread finishes its item: it goes on with the next queued item, or
\* becomes idle when the queue is empty
PoolFinish ==
    /\ pool.inflight > 0
    /\ IF Queued(pool) > 0
       THEN pool' = [pool EXCEPT !.done = @ + 1]
       ELSE pool' = [pool EXCEPT !.done = @ + 1, !.inflight = @ - 1, !.idle = @ + 1]
    /\ UNCHANGED <<task, items, execs, retries, response, call, db, deletion>>

\* lines 115-120 and the end of the with block: as_completed has yielded
\* every future and the executor is shut down
PoolReturn ==
    /\ pool.pc = "waiting"
    /\ pool.done = pool.submitted
    /\ pool' = [pool EXCEPT !.pc = "returned"]
    /\ UNCHANGED <<task, items, execs, retries, response, call, db, deletion>>

NextPool ==
    \/ \E n \in 0..MaxPending : PoolEnter(n)
    \/ PoolSubmit
    \/ PoolWait
    \/ PoolTake
    \/ PoolFinish
    \/ PoolReturn

SpecPool == Init /\ [][NextPool]_vars

(***************************************************************************)
(* Two tasks of one account, executed at the same time.  db.tasks and      *)
(* db.items are the rows of the two tables, db.account the row of the      *)
(* account, db.llm what the model call of each item does, db.execs the two *)
(* calls of execute_backtest_task.                                         *)
(***************************************************************************)
TaskIds == {1, 2}

\* most items of each of the two tasks
MaxTaskItems == 2

AccountRow ==
    [api_key |-> Str(<<Lit("sk")>>), base_url |-> Str(<<Lit("https://api")>>),
     model |-> Str(<<Lit("gpt-4o")>>)]

\* the request of a task of n items, whose decision logs all exist
RequestOf(n) == [k \in 1..n |-> FoundLog(Str(<<Lit("HOLD")>>))]

\* create_backtest_task, once for each task, then add_task for each
DbOpen(sizes, llm) ==
    /\ ~db.open
    /\ db' = [open    |-> TRUE,
              account |-> AccountRow,
              tasks   |-> [t \in TaskIds |-> NewTask(RequestOf(sizes[t]))],
              items   |-> [t \in TaskIds |->
                             [i \in 1..sizes[t] |-> NewItem(RequestOf(sizes[t])[i])]],
              llm     |-> llm,
              execs   |-> [t \in TaskIds |-> [NoExec EXCEPT !.pc = "scheduled"]]]
    /\ UNCHANGED <<task, items, execs, retries, response, call, pool, deletion>>

\* lines 39-50, for task t
DbExecStart(t) ==
    /\ db.open
    /\ db.execs[t].pc = "scheduled"
    /\ db' = [db EXCEPT !.tasks[t] = StartedTask(@), !.execs[t].pc = "started"]
    /\ UNCHANGED <<task, items, execs, retries, response, call, pool, deletion>>

\* lines 62-65: the pending items whose task_id is t
PendingItemsOf(d, t) ==
    {i \in DOMAIN d.items[t] : d.items[t][i].exists /\ d.items[t][i].status = "pending"}

\* lines 52-84, for task t: the account is read, the pending items of the
\* task are submitted
DbExecLoad(t) ==
    /\ db.open
    /\ db.execs[t].pc = "started"
    /\ db' = [db EXCEPT !.execs[t].pc = "dispatched",
                        !.execs[t].running = PendingItemsOf(db, t)]
    /\ UNCHANGED <<task, items, execs, retries, response, call, pool, deletion>>

\* mutant of CountedTaskOf: the UPDATE has no WHERE clause
CountedEveryTask(tasks, task_id, result) ==
    [t \in DOMAIN tasks |-> CountedTask(tasks[t], result)]

\* lines 215-218 and 225-228: UPDATE prompt_backtest_tasks ... WHERE id =
\* :task_id
CountedTaskOf(tasks, task_id, result) ==
    [tasks EXCEPT ![task_id] = CountedTask(@, result)]

\* lines 195-230: _save_item_result(item_id, task_id, result), on the rows
SaveItemResult(d, i, task_id, result) ==
    [d EXCEPT !.items[task_id][i] = SavedItem(@, result),
              !.tasks = CountedTaskOf(d.tasks, task_id, result)]

\* one pool thread of the execution of task t runs _process_and_save_item
\* for item i
DbItemWorker(t, i) ==
    /\ db.open
    /\ db.execs[t].pc = "dispatched"
    /\ i \in db.execs[t].running
    /\ LET outcome == _process_and_save_item(db.items[t][i].original_operation,
                                             db.llm[t][i])
           saved   == IF outcome.saved
                      THEN SaveItemResult(db, i, t, outcome.result) ELSE db
       IN  db' = [saved EXCEPT !.execs[t].running = @ \ {i}]
    /\ UNCHANGED <<task, items, execs, retries, response, call, pool, deletion>>

\* lines 86-93, for task t
DbExecFinalize(t) ==
    /\ db.open
    /\ db.execs[t].pc = "dispatched"
    /\ AllResolved(db.execs[t].running)
    /\ db' = [db EXCEPT !.tasks[t] = FinalizedTask(@), !.execs[t].pc = "finished"]
    /\ UNCHANGED <<task, items, execs, retries, response, call, pool, deletion>>

NextTasks ==
    \/ \E sizes \in [TaskIds -> 1..MaxTaskItems] :
           \E llm \in [TaskIds -> [1..MaxTaskItems -> LlmResults]] :
               /\ \A t \in TaskIds, i \in 1..MaxTaskItems :
                      i > sizes[t] => llm[t][i] = Return(None)
               /\ DbOpen(sizes, llm)
    \/ \E t \in TaskIds : DbExecStart(t)
    \/ \E t \in TaskIds : DbExecLoad(t)
    \/ \E t \in TaskIds, i \in 1..MaxTaskItems : DbItemWorker(t, i)
    \/ \E t \in TaskIds : DbExecFinalize(t)

SpecTasks == Init /\ [][NextTasks]_vars

\* the execution of task t alone, from its creation to its end: the task row
\* after the workers of items 1..n have run one after the other
RECURSIVE RunAlone(_, _, _)
RunAlone(d, t, n) ==
    IF n = 0 THEN StartedTask(NewTask(RequestOf(Len(d.items[t]))))
    ELSE LET outcome == _process_and_save_item(Str(<<Lit("HOLD")>>), d.llm[t][n])
             before  == RunAlone(d, t, n - 1)
         IN  IF outcome.saved THEN CountedTask(before, outcome.result) ELSE before

(***************************************************************************)
(* Steps, as seen from a pair of states                                    *)
(***************************************************************************)
\* the pool thread of execution e for item i returns
WorkerReturns(e, i) == i \in execs[e].running /\ i \notin execs'[e].running

\* ... having committed _save_item_result
WorkerFinalizes(e, i) ==
    WorkerReturns(e, i) /\ (task' # task \/ items' # items)

\* execution e passes lines 86-93
Finalizes(e) == execs[e].pc = "dispatched" /\ execs'[e].pc = "finished"

\* execution e returns at line 58
FailsStructurally(e) == execs[e].pc = "started" /\ execs'[e].pc = "returned"

\* retry request r passes line 453
RetryChecks(r) == retries[r].pc = "idle" /\ retries'[r].pc # "idle"

\* retry request r passes line 461
RetryQueries(r) == retries[r].pc = "checked" /\ retries'[r].pc # "checked"

\* retry request r commits at line 485
RetryCommits(r) == retries[r].pc = "queried" /\ retries'[r].pc = "done"

\* execution e is between its first commit (line 50) and its return
InProgress(e) == execs[e].pc \in {"started", "dispatched"}

Counted == task.completed_count + task.failed_count

Terminal == task.status \in {"completed", "failed"}

\* create_backtest_task commits the task
Creates == ~task.exists /\ task'.exists

(***************************************************************************)
(* Claims                                                                  *)
(***************************************************************************)
\* C1: in every reachable state, whatever the interleaving of create,
\* execute, item finalizations and retry requests,
\* completed_count + failed_count <= total_count.
C1_CountsWithinTotal == task.exists => Counted <= task.total_count

\* C2: whenever the task status is terminal (completed or failed),
\* completed_count + failed_count = total_count.
C2_TerminalCountsEqualTotal ==
    task.exists /\ Terminal => Counted = task.total_count

\* C3: each finalization adds exactly one to exactly one of the two counters
\* of the stored row, and while the workers of the first execution finalize,
\* in any order, the counters together count every finalized item: no update
\* is lost.
C3_NoLostUpdate ==
    /\ [](execs[2].pc = "unscheduled" =>
            Counted = Cardinality({i \in ItemIds : items[i].status # "pending"}))
    /\ [][\A e \in ExecIds, i \in ItemIds :
            WorkerFinalizes(e, i) =>
                \/ /\ task'.completed_count = task.completed_count + 1
                   /\ task'.failed_count = task.failed_count
                \/ /\ task'.failed_count = task.failed_count + 1
                   /\ task'.completed_count = task.completed_count]_vars

\* C3 witness: the two workers of the first execution have both finalized
C3_Witness ==
    /\ execs[2].pc = "unscheduled"
    /\ execs[1].pc = "dispatched"
    /\ execs[1].running = {}
    /\ Counted = 2

\* C4: no two workers ever process the same item at the same time, and an
\* item is finalized only from status pending (never twice without a retry
\* reset in between).
C4_OneWorkerPerItem ==
    /\ [](\A i \in ItemIds : Cardinality({e \in ExecIds : i \in execs[e].running}) <= 1)
    /\ [][\A e \in ExecIds, i \in ItemIds :
            WorkerFinalizes(e, i) => items[i].status = "pending"]_vars

\* C5: the status becomes completed, and finished_at is recorded, only in
\* the finalization of an execution none of whose workers is still in
\* flight.
C5_CompletedAfterAllResolved ==
    [][/\ \A e \in ExecIds : Finalizes(e) => execs[e].running = {}
       /\ (task'.status = "completed" /\ task.status # "completed") =>
              /\ \E e \in ExecIds : Finalizes(e) /\ execs[e].running = {}
              /\ task'.finished_at = Timestamp]_vars

\* C5 witness: the first execution has finalized after both its workers
C5_Witness ==
    /\ execs[1].pc = "finished"
    /\ task.status = "completed"
    /\ Counted = 2

\* C6: whatever happens while an item is processed, its worker returns with
\* the item failed (or completed): error message of at most 500 characters,
\* failed_count incremented; no item is left pending by a worker that
\* returned.
C6_WorkerBoundary ==
    [][\A e \in ExecIds, i \in ItemIds :
            WorkerReturns(e, i) =>
                /\ items'[i].status \in {"completed", "failed"}
                /\ items'[i].status = "failed" /\ WorkerFinalizes(e, i) =>
                       /\ Len(items'[i].error_message.s) <= 500
                       /\ task'.failed_count = task.failed_count + 1]_vars

\* C7: the return of a worker, whatever its outcome, leaves the task status,
\* the other items and every other future as they are, and the finalization
\* sets the status completed whatever failed_count is; the status failed
\* comes only with the task's own error message.
C7_ItemFailureIsolated ==
    /\ [](task.status = "failed" => task.error_message # None)
    /\ [][/\ \A e \in ExecIds, i \in ItemIds :
               WorkerReturns(e, i) =>
                   /\ task'.status = task.status
                   /\ \A j \in ItemIds \ {i} : items'[j] = items[j]
                   /\ \A d \in ExecIds :
                          /\ execs'[d].pc = execs[d].pc
                          /\ execs'[d].running =
                                 execs[d].running \ (IF d = e THEN {i} ELSE {})
          /\ \A e \in ExecIds : Finalizes(e) => task'.status = "completed"]_vars

\* C7 witness: an execution has finalized a task both of whose items failed
C7_Witness ==
    /\ task.status = "completed"
    /\ task.failed_count = 2
    /\ \A i \in ItemIds : items[i].status = "failed"

\* C8: a retry that was let through on a task that was not running and that
\* found N >= 1 failed items resets exactly those items to pending with
\* every result field cleared, sets failed_count to 0, clears finished_at,
\* sets the status pending, schedules one execution and answers N; the
\* other items and completed_count stay as they are.
C8_RetryResetsFailedItems ==
    [][\A r \in RetryIds :
          RetryCommits(r) =>
              LET failed_items == DOMAIN retries[r].failed_items
              IN  /\ failed_items # {}
                  /\ \A i \in failed_items :
                         /\ items'[i].exists
                         /\ items'[i].status = "pending"
                         /\ items'[i].original_operation = items[i].original_operation
                         /\ items'[i].error_message = None
                         /\ items'[i].new_operation = None
                         /\ items'[i].new_symbol = None
                         /\ items'[i].new_target_portion = None
                         /\ items'[i].new_reasoning = None
                         /\ items'[i].new_decision_json = None
                         /\ items'[i].decision_changed = None
                         /\ items'[i].change_type = None
                  /\ \A i \in ItemIds \ failed_items : items'[i] = items[i]
                  /\ task'.status = "pending"
                  /\ task'.failed_count = 0
                  /\ task'.finished_at = None
                  /\ task'.completed_count = task.completed_count
                  /\ task'.total_count = task.total_count
                  /\ Cardinality({e \in ExecIds : execs'[e] # execs[e]}) = 1
                  /\ \A e \in ExecIds : execs'[e] # execs[e] =>
                         /\ execs[e].pc = "unscheduled"
                         /\ execs'[e] = [execs[e] EXCEPT !.pc = "scheduled"]
                  /\ response' = Retrying(Cardinality(failed_items))]_vars

\* C9: a retry that finds no failed item answers "nothing to retry" with a
\* retry count of 0 and changes nothing: no item, no field of the task, and
\* no execution is scheduled.
C9_NothingToRetry ==
    [][\A r \in RetryIds :
          RetryQueries(r) /\ DOMAIN FailedItems(items) = {} =>
              /\ response' = NothingToRetryResponse
              /\ response'.retry_count = 0
              /\ retries'[r].pc = "done"
              /\ UNCHANGED <<task, items, execs>>]_vars

\* C9 witness: the retry of a completed task without failed items has
\* answered "nothing to retry"
C9_Witness ==
    /\ response = NothingToRetryResponse
    /\ retries[1].pc = "done"
    /\ task.status = "completed"
    /\ task.completed_count = 2

\* C10: a retry on a running task is rejected and changes nothing, and no
\* retry resets items or schedules an execution while an execution of the
\* task is in progress.
C10_NoRetryWhileRunning ==
    [][\A r \in RetryIds :
          /\ RetryChecks(r) /\ task.status = "running" =>
                 /\ response' = Rejected
                 /\ retries'[r].pc = "done"
                 /\ UNCHANGED <<task, items, execs>>
          /\ RetryCommits(r) => \A e \in ExecIds : ~InProgress(e)]_vars

\* C11: when the account of the task does not exist at the start of an
\* execution, the execution leaves the task failed with a stored error message
\* and a finish time, and processes no item: it submits no item to the pool
\* (no model call), and its return changes no item and neither counter.
C11_MissingAccountFailsTask ==
    /\ [](\A e \in ExecIds :
             execs[e].pc \in {"started", "returned"} => execs[e].running = {})
    /\ [][\A e \in ExecIds :
             FailsStructurally(e) =>
                 /\ task'.status = "failed"
                 /\ task'.error_message = Str(<<Lit("Account not found")>>)
                 /\ task'.finished_at = Timestamp
                 /\ task'.completed_count = task.completed_count
                 /\ task'.failed_count = task.failed_count
                 /\ items' = items
                 /\ execs'[e].running = {}]_vars

\* C11 witness: the execution of a task of two items has returned for want of
\* the account
C11_Witness ==
    /\ execs[1].pc = "returned"
    /\ task.status = "failed"
    /\ task.error_message # None
    /\ \A i \in ItemIds : items[i].exists /\ items[i].status = "pending"

\* the status of the task changes from a to b
StatusStep(a, b) == task.status = a /\ task'.status = b

\* no retry has scheduled an execution
FirstExecutionOnly == \A e \in ExecIds \ {1} : execs'[e].pc = "unscheduled"

\* C12: in a run without retry the status follows pending -> running ->
\* completed, and on a structural failure it jumps from pending to failed:
\* the status is never running before it is failed.
C12_DirectJumpToFailed ==
    [][FirstExecutionOnly /\ task.exists /\ task'.status # task.status =>
          \/ StatusStep("pending", "running")
          \/ StatusStep("running", "completed")
          \/ StatusStep("pending", "failed")]_vars

\* C12 as amended: in a run without retry the status follows pending ->
\* running -> completed, and on a structural failure pending -> running ->
\* failed: the execution commits the status running before it looks up the
\* account.
C12_RunningBeforeFailed ==
    [][/\ FirstExecutionOnly /\ task.exists /\ task'.status # task.status =>
              \/ StatusStep("pending", "running")
              \/ StatusStep("running", "completed")
              \/ StatusStep("running", "failed")
       /\ \A e \in ExecIds :
              FirstExecutionOnly /\ FailsStructurally(e) =>
                  task.status = "running" /\ task.started_at = Timestamp]_vars

\* C12 witness: the first execution has failed for want of the account, after
\* it had marked the task running
C12_Witness ==
    /\ execs[1].pc = "returned"
    /\ \A e \in ExecIds \ {1} : execs[e].pc = "unscheduled"
    /\ task.status = "failed"
    /\ task.started_at = Timestamp

\* C13: a structural failure is terminal: once the status of the task is
\* failed it stays failed and no execution is scheduled, whatever retry is
\* requested; and nothing is retried automatically: an execution is scheduled
\* by the create request or by a retry request only, and an execution submits
\* an item to the pool once, when it loads the pending items.
C13_FailedIsTerminal ==
    [][/\ task.status = "failed" =>
              /\ task'.status = "failed"
              /\ \A e \in ExecIds :
                     execs[e].pc = "unscheduled" => execs'[e].pc = "unscheduled"
       /\ \A e \in ExecIds :
              execs[e].pc = "unscheduled" /\ execs'[e].pc # "unscheduled" =>
                  ~task.exists \/ \E r \in RetryIds : RetryCommits(r)
       /\ \A e \in ExecIds :
              execs'[e].running \ execs[e].running # {} =>
                  execs[e].pc = "started"]_vars

\* the status _save_item_result leaves on a pending item after the worker
\* returned with this outcome
ItemStatusAfter(outcome) ==
    IF ~outcome.saved THEN "pending"
    ELSE IF outcome.result.success THEN "completed" ELSE "failed"

\* C14: the worker marks the item completed if and only if the invoker
\* returned a response, the extracted content is not empty and the parser
\* yielded a decision; when the invoker returned nothing, when the content is
\* empty and when the parser found no decision it marks the item failed, with
\* an error message of its own for each of the three cases.
C14_CompletedIffDecision ==
    call.fn = "_process_and_save_item" =>
        LET llm      == call.args[2]
            returned == ~llm.raised /\ Truthy(llm.v)
            content  == IF returned THEN _get_content_from_response(llm.v) ELSE None
            parsed   == Truthy(content) /\ ~_parse_decision_raises(content)
            decision == IF parsed THEN _parse_decision(content) ELSE None
            status   == ItemStatusAfter(call.result)
            error    == call.result.result.error
        IN  /\ status = "completed" <=> returned /\ Truthy(content) /\ Truthy(decision)
            /\ ~llm.raised /\ ~returned =>
                   status = "failed" /\ error = Str(<<Lit("LLM call failed - no response")>>)
            /\ returned /\ ~Truthy(content) =>
                   status = "failed" /\ error = Str(<<Lit("LLM call failed - empty content")>>)
            /\ parsed /\ ~Truthy(decision) =>
                   status = "failed" /\ error = Str(<<Lit("Failed to parse decision")>>)

\* C15: decision_changed is true exactly when the lowercase forms of the
\* original operation (empty when absent) and of the new operation differ;
\* change_type is "<original>_to_<new>" in lowercase when it is true and
\* absent otherwise; nothing else enters: "BUY" against "buy" is unchanged,
\* and another reasoning gives the same classification.
C15_ChangeClassification ==
    call.fn = "classify" =>
        LET text(v) == IF v = None THEN <<>> ELSE v.s
            orig_op == Lower(text(call.args[1]))
            new_op  == Lower(text(call.args[2]))
            other   == SuccessResult(DecisionOf(call.args[2]), call.args[1],
                                     Str(<<Lit("other")>>), Str(<<Lit("other")>>))
        IN  /\ call.result.decision_changed = Bool(orig_op # new_op)
            /\ call.result.change_type =
                   IF orig_op # new_op
                   THEN Str(orig_op \o <<Lit("_to_")>> \o new_op) ELSE None
            /\ text(call.args[1]) \in {<<Lit("BUY")>>, <<Lit("Buy")>>, <<Lit("buy")>>}
               /\ text(call.args[2]) \in {<<Lit("BUY")>>, <<Lit("Buy")>>, <<Lit("buy")>>} =>
                   call.result.decision_changed = Bool(FALSE)
            /\ text(call.args[1]) = <<Lit("buy")>> /\ text(call.args[2]) = <<Lit("HOLD")>> =>
                   call.result.change_type =
                       Str(<<Lit("buy"), Lit("_to_"), Lit("hold")>>)
            /\ other.decision_changed = call.result.decision_changed
            /\ other.change_type = call.result.change_type

\* C15 witness: "BUY" against "buy" has been classified
C15_Witness ==
    /\ call.fn = "classify"
    /\ call.args[1] = Str(<<Lit("BUY")>>)
    /\ call.args[2] = Str(<<Lit("buy")>>)
    /\ call.result.change_type = None

\* an endpoint answers with a success status and at least one choice
AnswersWithChoice(answer) ==
    /\ answer.kind = "http"
    /\ answer.status_code = 200
    /\ answer.data # NotJson
    /\ IsDict(answer.data)
    /\ "choices" \in DOMAIN answer.data.d
    /\ IsList(answer.data.d.choices)
    /\ Len(answer.data.d.choices.e) >= 1

\* C16: the loop over the endpoints takes them in the order given and returns
\* the response of the first one that answers with a success status and at
\* least one choice, whatever the earlier ones did (HTTP failure, exception,
\* no choice); a failure of the first and a success of the second complete
\* the item with the response of the second.
C16_FirstAnsweringEndpoint ==
    call.fn = "_call_llm_with_config" /\ HasLower(call.args[1].model) =>
        LET answers == call.args[2]
            good    == {i \in 1..Len(answers) : AnswersWithChoice(answers[i])}
            first   == CHOOSE i \in good : \A j \in good : i <= j
        IN  /\ ~call.result.raised
            /\ good = {} => call.result.v = None /\ call.result.sent = Len(answers)
            /\ good # {} =>
                   /\ call.result.v = answers[first].data
                   /\ call.result.sent = first
                   /\ ItemStatusAfter(_process_and_save_item(None, Return(call.result.v)))
                          = "completed"
                   /\ _process_and_save_item(None, Return(call.result.v)).result.operation
                          = _parse_decision(
                                _get_content_from_response(answers[first].data)).d.operation

\* C16 witness: the first endpoint failed and the second answered
C16_Witness ==
    /\ call.fn = "_call_llm_with_config"
    /\ call.args[2] = <<Http(500, NotJson), Http(200, ResponseB)>>
    /\ call.result.v = ResponseB
    /\ call.result.sent = 2

\* C17: the invoker never raises: for every account configuration, a missing
\* model identifier included, and whatever the endpoints do, it returns a
\* response or the failure value; without an endpoint it fails at once and
\* sends no request; when no endpoint answers it returns the failure value.
C17_InvokerNeverRaises ==
    call.fn = "_call_llm_with_config" =>
        LET answers == call.args[2]
        IN  /\ ~call.result.raised
            /\ answers = <<>> => call.result.v = None /\ call.result.sent = 0
            /\ (\A i \in 1..Len(answers) : ~AnswersWithChoice(answers[i])) =>
                   call.result.v = None

\* the message of the first choice of a response, None when it has none
MessageOf(api_result) ==
    IF /\ "choices" \in DOMAIN api_result.d
       /\ IsList(api_result.d.choices)
       /\ api_result.d.choices.e # <<>>
       /\ IsDict(api_result.d.choices.e[1])
       /\ "message" \in DOMAIN api_result.d.choices.e[1].d
       /\ IsDict(api_result.d.choices.e[1].d.message)
    THEN api_result.d.choices.e[1].d.message
    ELSE None

\* field k of a message, None when it has none
FieldOf(msg, k) == IF k \in DOMAIN msg.d THEN msg.d[k] ELSE None

\* the texts of the blocks of a list that are objects tagged with this type,
\* read from this field, in the order of the list
TaggedTexts(blocks, type, field) ==
    LET tagged == SelectSeq(blocks, LAMBDA b :
                      IsDict(b) /\ FieldOf(b, "type") = Str(<<Lit(type)>>))
    IN  [i \in 1..Len(tagged) |-> FieldOf(tagged[i], field)]

\* C18: content extraction returns a text for every response: the content
\* of the first choice's message when it is a string; the texts of the blocks
\* tagged "text", in the order of the list and joined by line breaks, when it
\* is a list of blocks; the empty text for every other content (object,
\* number, absent).
C18_ContentIsText ==
    call.fn = "normalize" /\ MessageOf(call.args[1]) # None =>
        LET content == FieldOf(MessageOf(call.args[1]), "content")
            texts   == TaggedTexts(content.e, "text", "text")
        IN  /\ IsStr(call.result.content)
            /\ IsStr(content) => call.result.content = content
            /\ IsList(content) /\ (\A i \in 1..Len(texts) : IsStr(texts[i])) =>
                   call.result.content =
                       Str(Join([i \in 1..Len(texts) |-> texts[i].s], <<Lit("\n")>>))
            /\ ~IsStr(content) /\ ~IsList(content) => call.result.content = Str(<<>>)

\* the stripped texts among vs that are strings and not blank, in order
NonBlankTexts(vs) ==
    LET kept == SelectSeq(vs, LAMBDA v : IsStr(v) /\ Strip(v.s) # <<>>)
    IN  [i \in 1..Len(kept) |-> Strip(kept[i].s)]

\* C19: reasoning extraction keeps every match that is not blank, in the
\* order reasoning field, reasoning-content field, thinking blocks of the
\* content list, thought-flagged parts, and joins them with a blank line; for
\* a content list of one thinking block and one text block the reasoning is
\* the text of the thinking block and the content the text of the text
\* block, in whichever order the two blocks come.
C19_ReasoningAccumulates ==
    call.fn = "normalize" /\ MessageOf(call.args[1]) # None =>
        LET msg      == MessageOf(call.args[1])
            content  == FieldOf(msg, "content")
            parts    == FieldOf(msg, "parts")
            thoughts == IF IsList(parts)
                        THEN SelectSeq(parts.e, LAMBDA p :
                                 IsDict(p) /\ FieldOf(p, "thought") = Bool(TRUE))
                        ELSE <<>>
            matches  ==
                <<FieldOf(msg, "reasoning"), FieldOf(msg, "reasoning_content")>>
                \o (IF IsList(content)
                    THEN TaggedTexts(content.e, "thinking", "thinking") ELSE <<>>)
                \o [i \in 1..Len(thoughts) |-> FieldOf(thoughts[i], "text")]
            thinking == ThinkingBlock(Str(<<Lit(" "), Lit("plan")>>))
            answer   == TextBlock(Str(<<Lit("answer")>>))
        IN  /\ call.result.reasoning =
                   Str(Join(NonBlankTexts(matches), <<Lit("\n"), Lit("\n")>>))
            /\ /\ content \in {List(<<thinking, answer>>), List(<<answer, thinking>>)}
               /\ DOMAIN msg.d = {"content"}
               => /\ call.result.reasoning = Str(<<Lit("plan")>>)
                  /\ call.result.content = Str(<<Lit("answer")>>)

\* C19 witness: a response with a reasoning field, a reasoning-content field,
\* two thinking blocks and a thought part has been read
C19_Witness ==
    /\ call.fn = "normalize"
    /\ call.result.reasoning =
           Str(<<Lit("why"), Lit("\n"), Lit("\n"), Lit("steps"), Lit("\n"), Lit("\n"),
                 Lit("check"), Lit("\n"), Lit("\n"), Lit("plan"), Lit("\n"), Lit("\n"),
                 Lit("musing")>>)

\* what the parser yielded: its result without the raw text it attaches
Yielded(result) ==
    IF IsDict(result)
    THEN Dict([k \in DOMAIN result.d \ {"_reasoning"} |-> result.d[k]])
    ELSE result

\* C20: shape resolution checks three shapes in order and falls through to
\* the next when one does not apply: (a) an object whose decisions field is
\* a non-empty list of objects yields the first element, (b) a bare list
\* whose first element is an object yields that element, (c) an object with
\* an operation field yields itself, so that an object with an empty
\* decisions list and an operation field resolves by (c); every other
\* document is a parse failure.
C20_ShapesFallThrough ==
    call.fn = "_parse_decision" =>
        LET document  == call.args[1]
            decisions == IF IsDict(document) THEN FieldOf(document, "decisions") ELSE None
            nested    == /\ IsList(decisions)
                         /\ decisions.e # <<>>
                         /\ \A i \in 1..Len(decisions.e) : IsDict(decisions.e[i])
            bare      == IsList(document) /\ document.e # <<>> /\ IsDict(document.e[1])
            direct    == IsDict(document) /\ "operation" \in DOMAIN document.d
        IN  Yielded(call.result) =
                IF nested THEN decisions.e[1]
                ELSE IF bare THEN document.e[1]
                ELSE IF direct THEN document
                ELSE None

\* C21 as stated: the parser returns the same Decision for a decision
\* object in a block tagged json, in an untagged block and with no fence.
C21_SameDecisionAnyFence ==
    call.fn = "parse_fenced" =>
        /\ call.result.tagged = call.result.bare
        /\ call.result.untagged = call.result.bare

\* C21, amended: the three forms resolve to the same object (the same
\* operation, symbol and sizing), or all three to no decision; the raw text
\* attached to each Decision is the first 2000 characters of the response as
\* it was given, fence included, and so differs between the three.
C21_SameResolvedObject ==
    call.fn = "parse_fenced" =>
        LET document == call.args[1]
            lead     == call.args[2]
            tagged   == call.result.tagged
            untagged == call.result.untagged
            bare     == call.result.bare
        IN  /\ Yielded(tagged) = Yielded(bare)
            /\ Yielded(untagged) = Yielded(bare)
            /\ IsDict(bare) =>
                   /\ tagged.d._reasoning =
                          Str(Take(lead \o Fenced(<<Lit("json")>>, document), 2000))
                   /\ untagged.d._reasoning =
                          Str(Take(lead \o Fenced(<<>>, document), 2000))
                   /\ bare.d._reasoning =
                          Str(Take(lead \o <<JsonText(document, "plain")>>, 2000))
                   /\ tagged # bare /\ untagged # bare /\ tagged # untagged

\* C21 witness: a decision object has been parsed in its three forms
C21_Witness ==
    /\ call.fn = "parse_fenced"
    /\ IsDict(call.result.tagged)
    /\ Yielded(call.result.tagged) = call.args[1]
    /\ Yielded(call.result.bare) = call.args[1]

\* C22: when strict parsing fails the parser normalizes the text (line
\* breaks and tabs to spaces, curly quotes to straight quotes, en, em and
\* non-breaking dashes to a hyphen) and retries once: a text whose only
\* defect is curly quotes or such dashes parses to its decision, and a text
\* that is still no JSON is a parse failure.
C22_NormalizedRetryParses ==
    call.fn = "parse_defective" =>
        LET decision == call.args[1]
            q        == call.args[2]
        IN  /\ q \in {"plain", "curly", "dash", "rawnl"} =>
                   Yielded(call.result) = decision
            /\ q = "bad" => call.result = None

\* the sum of a sequence of integers
RECURSIVE Total(_)
Total(amounts) == IF amounts = <<>> THEN 0 ELSE Head(amounts) + Total(Tail(amounts))

\* the completed rows that went from an entry (buy or sell) to hold
HeldBack(rows) ==
    SelectSeq(rows, LAMBDA i :
        /\ i.status = "completed"
        /\ Lower(i.original_operation.s) \in {<<Lit("buy")>>, <<Lit("sell")>>}
        /\ Lower(i.new_operation.s) = <<Lit("hold")>>)

\* C24: in the results summary a completed item that went from an entry
\* (buy or sell) to hold counts, when its realized profit was negative, as
\* one avoided loss and adds the magnitude of the loss to the avoided-loss
\* amount (-120.5 gives 120.5), and when it was positive as one missed
\* profit of that amount.
C24_AvoidedLossMagnitude ==
    call.fn = "get_task_results" =>
        LET rows   == call.args[1]
            losses == SelectSeq(HeldBack(rows), LAMBDA i : PnlOf(i) < 0)
            gains  == SelectSeq(HeldBack(rows), LAMBDA i : PnlOf(i) > 0)
        IN  /\ call.result.avoided_loss_count = Len(losses)
            /\ call.result.avoided_loss_amount =
                   Total([k \in 1..Len(losses) |-> 0 - PnlOf(losses[k])])
            /\ call.result.missed_profit_count = Len(gains)
            /\ call.result.missed_profit_amount =
                   Total([k \in 1..Len(gains) |-> PnlOf(gains[k])])

\* C23: for an existing account create_backtest_task creates one task in
\* status pending with both counters 0 and one pending item for each input
\* whose historical decision exists, in the order of the request and holding
\* the snapshot of that decision (an input whose decision does not exist
\* creates no item), and schedules one execution without running it; for an
\* account that does not exist it creates nothing.
C23_CreateTask ==
    call.fn = "create_backtest_task" =>
        LET account_found == call.args[1]
            request       == call.args[2]
            created       == call.result
            existing      == SelectSeq(request, LAMBDA log : log.found)
        IN  IF account_found
            THEN /\ created.task.exists
                 /\ created.task.status = "pending"
                 /\ created.task.completed_count = 0
                 /\ created.task.failed_count = 0
                 /\ Len(created.items) = Len(existing)
                 /\ \A i \in 1..Len(existing) :
                        /\ created.items[i].exists
                        /\ created.items[i].status = "pending"
                        /\ created.items[i].original_operation = existing[i].operation
                        /\ created.items[i].new_operation = None
                 /\ Cardinality({e \in ExecIds : created.execs[e].pc = "scheduled"}) = 1
                 /\ \A e \in ExecIds : created.execs[e].pc \in {"scheduled", "unscheduled"}
            ELSE /\ ~created.task.exists
                 /\ created.items = <<>>
                 /\ \A e \in ExecIds : created.execs[e].pc = "unscheduled"

\* C23 witness: a task was created from a request of two inputs whose
\* second decision does not exist
C23_Witness ==
    /\ call.fn = "create_backtest_task"
    /\ call.args[1]
    /\ Len(call.args[2]) = 2
    /\ ~call.args[2][2].found
    /\ Len(call.result.items) = 1
    /\ call.result.items[1].original_operation = Str(<<Lit("buy")>>)

\* C25: during one execution at most MAX_WORKERS = 20 items are in flight
\* at any time, however many pending items there are; every pending item is
\* submitted, and the coordinator returns only when all of them are done.
C25_BoundedPool ==
    /\ pool.inflight <= MAX_WORKERS
    /\ pool.threads <= MAX_WORKERS
    /\ pool.pc \in {"waiting", "returned"} => pool.submitted = pool.n
    /\ pool.pc = "returned" => pool.done = pool.n /\ pool.inflight = 0

\* C25 witness: the limit binds: 20 items are in flight and another waits
C25_Witness ==
    /\ pool.inflight = MAX_WORKERS
    /\ Queued(pool) > 0
    /\ pool.n > MAX_WORKERS

\* C26 as stated: completed_count + failed_count = total_count holds only
\* at a terminal status: while the task is pending or running,
\* completed_count + failed_count < total_count.
C26_EqualityOnlyWhenTerminal ==
    task.exists /\ task.status \in {"pending", "running"} =>
        Counted < task.total_count

\* C26, amended: the counters are final before the status is.  The step
\* that marks the task completed changes no counter, so the equality that
\* holds at completion already held in the state before it, with the task
\* not yet completed; and a task created from an empty request satisfies
\* the equality from its creation, in status pending.
C26_CountersFinalBeforeStatus ==
    [][ /\ \A e \in ExecIds : Finalizes(e) =>
               /\ task'.status = "completed"
               /\ task'.completed_count = task.completed_count
               /\ task'.failed_count = task.failed_count
               /\ task'.total_count = task.total_count
        /\ Creates /\ task'.total_count = 0 =>
               /\ task'.status = "pending"
               /\ task'.completed_count + task'.failed_count = task'.total_count
      ]_vars

\* C26 witness: a running task of one or more items whose workers have all
\* committed and whose coordinator has not yet marked it completed
C26_Witness ==
    /\ task.status = "running"
    /\ task.total_count > 0
    /\ Counted = task.total_count
    /\ \A r \in RetryIds : retries[r].pc = "idle"
    /\ \E e \in ExecIds : execs[e].pc = "dispatched" /\ execs[e].running = {}

\* C27: an execution dispatches exactly the items that are pending when it
\* reads them, and execute_backtest_task never processes again an item that
\* is already completed or failed nor overwrites its result fields: the item
\* that a worker of an execution saves is a pending item, and a retry run
\* leaves the items it did not reset as they are.
C27_OnlyPendingItemsProcessed ==
    [][ \A e \in ExecIds, i \in ItemIds :
            /\ execs[e].pc = "started" /\ execs'[e].pc = "dispatched" =>
                   execs'[e].running = {j \in ItemIds :
                                           items[j].exists /\ items[j].status = "pending"}
            /\ WorkerReturns(e, i) =>
                   /\ items[i].status = "pending"
                   /\ \A j \in ItemIds \ {i} : items'[j] = items[j]
      ]_vars

\* the account of the task is found by every execution so far
AccountExists == \A e \in ExecIds : execs[e].pc # "returned"

C29_LengthBounds ==
    call.fn = "_save_item_result" /\ call.result.saved =>
        LET item == call.result.item
            llm  == call.args[2]
        IN  /\ item.status = "failed" =>
                   /\ Len(item.error_message.s) <= ErrorLimit
                   /\ item.new_reasoning # None =>
                          Len(item.new_reasoning.s) <= TextLimit
            /\ item.status = "completed"
                 /\ _extract_reasoning_from_response(llm.v) = Str(<<>>) =>
                   LET content == _get_content_from_response(llm.v).s
                   IN  /\ Len(item.new_reasoning.s) <= TextLimit
                       /\ Len(item.new_reasoning.s) <= Len(content)
                       /\ Len(content) <= TextLimit => item.new_reasoning.s = content
                       /\ \A k \in 1..Len(item.new_reasoning.s) :
                              item.new_reasoning.s[k] = content[k]
                       /\ Len(content) >= TextLimit =>
                              Len(item.new_reasoning.s) = TextLimit

\* C29 witness: an error message, a raw response and a fallback reasoning
\* that were cut to their limits
C29_Witness ==
    /\ call.fn = "_save_item_result"
    /\ call.result.saved
    /\ \/ /\ call.result.item.status = "failed"
          /\ call.args[2].raised
          /\ Len(call.args[2].error) > ErrorLimit
          /\ Len(call.result.item.error_message.s) = ErrorLimit
       \/ /\ call.result.item.status = "completed"
          /\ Len(_get_content_from_response(call.args[2].v).s) > TextLimit
          /\ Len(call.result.item.new_reasoning.s) = TextLimit

\* a worker of task a returns from item i
DbWorkerReturns(a, i) ==
    /\ db.open
    /\ i \in db.execs[a].running
    /\ i \notin db'.execs[a].running

\* C30: tasks running in parallel do not affect each other: a worker that
\* finalizes an item of task A changes only that item and the counters of
\* task A, and leaves the status of A, the row and the items of task B and
\* the account as they are; when both executions are over the counters of
\* each task are those of its execution run alone.
C30_TasksIndependent ==
    [][ /\ \A a \in TaskIds, i \in 1..MaxTaskItems :
               DbWorkerReturns(a, i) =>
                   /\ \A b \in TaskIds \ {a} :
                          /\ db'.tasks[b] = db.tasks[b]
                          /\ db'.items[b] = db.items[b]
                   /\ db'.account = db.account
                   /\ \A j \in DOMAIN db.items[a] \ {i} :
                          db'.items[a][j] = db.items[a][j]
                   /\ db'.tasks[a] =
                          [db.tasks[a] EXCEPT
                              !.completed_count = db'.tasks[a].completed_count,
                              !.failed_count = db'.tasks[a].failed_count]
        /\ db'.open /\ (\A t \in TaskIds : db'.execs[t].pc = "finished") =>
               \A t \in TaskIds :
                   /\ db'.tasks[t].completed_count =
                          RunAlone(db', t, Len(db'.items[t])).completed_count
                   /\ db'.tasks[t].failed_count =
                          RunAlone(db', t, Len(db'.items[t])).failed_count
      ]_vars

\* C30 witness: both tasks are running, each with a saved item and an item
\* still in flight
C30_Witness ==
    /\ db.open
    /\ \A t \in TaskIds :
           /\ db.tasks[t].status = "running"
           /\ db.tasks[t].completed_count + db.tasks[t].failed_count = 1
           /\ db.execs[t].running # {}


\* the items of the task that are in this status
ItemsIn(status) == {i \in ItemIds : items[i].exists /\ items[i].status = status}

\* C31: in every reachable state of create, execute (mid-run included) and
\* retry, completed_count is the number of the task's items in status
\* completed and failed_count the number of its items in status failed.
C31_CountersMatchItems ==
    task.exists =>
        /\ task.completed_count = Cardinality(ItemsIn("completed"))
        /\ task.failed_count = Cardinality(ItemsIn("failed"))

\* C32: the task's finished_at is set exactly when its status is completed
\* or failed, and absent while the status is pending or running, on the
\* first run and on every retry run.
C32_FinishedIffTerminal ==
    task.exists => (task.finished_at # None <=> Terminal)

\* C33: the result slot of every item agrees with its status.  A pending
\* item has no error message and no new operation, symbol, sizing,
\* reasoning, raw decision, decision-changed flag or change type; a completed
\* item has a decision-changed flag and a raw decision and no error message;
\* a failed item has an error message and no new operation, raw decision,
\* decision-changed flag or change type.
C33_ResultSlotMatchesStatus ==
    \A i \in ItemIds : items[i].exists =>
        /\ items[i].status = "pending" =>
               /\ items[i].error_message = None
               /\ items[i].new_operation = None
               /\ items[i].new_symbol = None
               /\ items[i].new_target_portion = None
               /\ items[i].new_reasoning = None
               /\ items[i].new_decision_json = None
               /\ items[i].decision_changed = None
               /\ items[i].change_type = None
        /\ items[i].status = "completed" =>
               /\ items[i].decision_changed # None
               /\ items[i].new_decision_json # None
               /\ items[i].error_message = None
        /\ items[i].status = "failed" =>
               /\ items[i].error_message # None
               /\ items[i].new_operation = None
               /\ items[i].new_decision_json = None
               /\ items[i].decision_changed = None
               /\ items[i].change_type = None

\* delete_task removes the task
Deletes == task.exists /\ ~task'.exists

\* delete_task answers that the task is running
Rejects == deletion.pc = "idle" /\ deletion'.status_code = 400

\* C34: a task is never deleted while one of its executions is in progress.
\* delete_task on a running task is rejected and changes nothing, so the
\* finalization step and every item worker of an execution still find the
\* task and its items; an execution started for a task that was deleted
\* beforehand returns without any effect.
C34_NoDeleteWhileExecuting ==
    [][ /\ Deletes => \A e \in ExecIds : ~InProgress(e)
        /\ Rejects => task.status = "running" /\ UNCHANGED <<task, items, execs>>
        /\ \A e \in ExecIds :
               /\ execs'[e].pc # "raised"
               /\ InProgress(e) => task'.exists
               /\ \A i \in execs[e].running : items'[i].exists
               /\ execs[e].pc = "scheduled" /\ ~task.exists /\ execs'[e] # execs[e] =>
                      /\ execs'[e].pc = "returned"
                      /\ UNCHANGED <<task, items>>
      ]_vars
=============================================================================
